---- MODULE Spec2Model ----
(***************************************************************************)
(* GPS Route Video Generator: the track parsers (parseGpx, parseKml), the  *)
(* file selection handler, and the generate action (snapshot -> submit ->  *)
(* poll -> fetch) of the App component, as one state machine.              *)
(*                                                                         *)
(* Texts are TLA+ strings; TLC evaluates Len, SubSeq and \o on them, so    *)
(* the regular expressions and the numeric conversions of the source are   *)
(* computed character by character.                                        *)
(***************************************************************************)
EXTENDS Integers, Sequences, FiniteSets, TLC

VARIABLES
    routeData,        \* App state: null or the parsed Coordinate sequence
    fileName,         \* App state
    isLoading,        \* App state
    progressMessage,  \* App state
    videoUrl,         \* App state: null or the object URL of the video
    error,            \* App state: null or the message shown
    readers,          \* FileReaders whose read has not completed yet
    lastRead,         \* the latest FileReader completion and what it produced
    calls,            \* handleGenerateVideo invocations, by call slot
    intervals,        \* handles of the setInterval timers that are running
    parseIn,          \* parsers: the text handed to a parser
    parseOut          \* parsers: what the parser produced

vars == <<routeData, fileName, isLoading, progressMessage, videoUrl, error,
          readers, lastRead, calls, intervals, parseIn, parseOut>>

null == "null"

(***************************************************************************)
(* Characters and strings                                                  *)
(***************************************************************************)

\* s[i] of a string, "" outside it
CharAt(s, i) == IF i >= 1 /\ i <= Len(s) THEN SubSeq(s, i, i) ELSE ""

\* s.startsWith(p, i - 1)
StartsWithAt(s, p, i) == i >= 1 /\ i + Len(p) - 1 <= Len(s) /\ SubSeq(s, i, i + Len(p) - 1) = p

\* The regular expression class \s, which is also the white space trim(),
\* parseFloat and Number skip: TAB, LF, VT, FF, CR, SP, U+00A0, U+1680,
\* U+2000..U+200A, U+2028, U+2029, U+202F, U+205F, U+3000 and U+FEFF. The
\* characters from U+2000 to U+3000 cannot be written in a string of this
\* module, so that no text of the model holds one; the others are listed,
\* VT, U+00A0, U+1680 and U+FEFF as the characters themselves.
IsSpace(c) ==
    c \in {" ", "\t", "\n", "\r", "\f", "", " ", " ", "﻿"}

\* First index >= i that holds no white space (Len(s) + 1 when none)
SkipSpaces(s, i) ==
    IF \E j \in i..Len(s) : ~IsSpace(CharAt(s, j))
    THEN CHOOSE j \in i..Len(s) :
            ~IsSpace(CharAt(s, j)) /\ \A h \in i..(j - 1) : IsSpace(CharAt(s, h))
    ELSE IF i > Len(s) THEN i ELSE Len(s) + 1

\* First index >= i holding character c, Len(s) + 1 when there is none
IndexOfChar(s, c, i) ==
    IF \E j \in i..Len(s) : CharAt(s, j) = c
    THEN CHOOSE j \in i..Len(s) : CharAt(s, j) = c /\ \A h \in i..(j - 1) : CharAt(s, h) # c
    ELSE IF i > Len(s) THEN i ELSE Len(s) + 1

\* Last index <= i that holds no white space (0 when none)
SkipSpacesBack(s, i) ==
    IF \E j \in 1..i : ~IsSpace(CharAt(s, j))
    THEN CHOOSE j \in 1..i :
            ~IsSpace(CharAt(s, j)) /\ \A h \in (j + 1)..i : IsSpace(CharAt(s, h))
    ELSE IF i < 1 THEN i ELSE 0

\* String.prototype.trim
trim(s) == SubSeq(s, SkipSpaces(s, 1), SkipSpacesBack(s, Len(s)))

\* The indices lo..hi of s that hold a comma, in order
RECURSIVE CommaIndices(_, _, _)
CommaIndices(s, lo, hi) ==
    IF lo > hi THEN <<>>
    ELSE IF lo = hi THEN (IF CharAt(s, lo) = "," THEN <<lo>> ELSE <<>>)
    ELSE CommaIndices(s, lo, (lo + hi) \div 2) \o CommaIndices(s, ((lo + hi) \div 2) + 1, hi)

\* The texts of s from index i on that the separators leave: separator k
\* spans first[k]..last[k]
FieldsBetween(s, i, first, last) ==
    [k \in 1..(Len(first) + 1) |->
        SubSeq(s, IF k = 1 THEN i ELSE last[k - 1] + 1,
                  IF k = Len(first) + 1 THEN Len(s) ELSE first[k] - 1)]

\* s.split(',') from index i on: the fields between the commas, empty ones kept
SplitComma(s, i) ==
    LET commas == CommaIndices(s, i, Len(s))
    IN  FieldsBetween(s, i, commas, commas)

\* The indices lo..hi of s where a run of white space of s[i..] begins, in
\* order, and those where one ends
RECURSIVE SpaceRunStarts(_, _, _, _)
SpaceRunStarts(s, i, lo, hi) ==
    IF lo > hi THEN <<>>
    ELSE IF lo = hi
    THEN (IF IsSpace(CharAt(s, lo)) /\ (lo = i \/ ~IsSpace(CharAt(s, lo - 1)))
          THEN <<lo>> ELSE <<>>)
    ELSE SpaceRunStarts(s, i, lo, (lo + hi) \div 2)
         \o SpaceRunStarts(s, i, ((lo + hi) \div 2) + 1, hi)

RECURSIVE SpaceRunEnds(_, _, _)
SpaceRunEnds(s, lo, hi) ==
    IF lo > hi THEN <<>>
    ELSE IF lo = hi
    THEN (IF IsSpace(CharAt(s, lo)) /\ ~IsSpace(CharAt(s, lo + 1)) THEN <<lo>> ELSE <<>>)
    ELSE SpaceRunEnds(s, lo, (lo + hi) \div 2) \o SpaceRunEnds(s, ((lo + hi) \div 2) + 1, hi)

\* s.split(/\s+/) from index i on ("" splits to <<"">>)
SplitSpaces(s, i) ==
    FieldsBetween(s, i, SpaceRunStarts(s, i, i, Len(s)), SpaceRunEnds(s, i, Len(s)))

(***************************************************************************)
(* Numbers. A JavaScript number is a double. A finite one is kept as its   *)
(* sign and the shortest decimal that denotes it, the one Number::toString *)
(* prints: digits * 10^e, digits without zeros at either end (<<0>> for    *)
(* zero, which has a sign too); NaN and the infinities are values of their *)
(* own. A decimal or a radix literal is rounded to the nearest double,     *)
(* ties to even, by exact arithmetic on naturals of any length.            *)
(***************************************************************************)

Num(neg, digits, e) == [k |-> "num", neg |-> neg, digits |-> digits, e |-> e]
Zero(neg) == Num(neg, <<0>>, 0)
NaN == [k |-> "NaN", neg |-> FALSE, digits |-> <<>>, e |-> 0]
Infinity(neg) == [k |-> "Infinity", neg |-> neg, digits |-> <<>>, e |-> 0]

Max(a, b) == IF a >= b THEN a ELSE b

\* A natural of any length: its limbs in base 10000, the least significant
\* first and the most significant not 0; <<>> is 0
BigTrim(X) ==
    SubSeq(X, 1, IF \A i \in 1..Len(X) : X[i] = 0 THEN 0
                 ELSE CHOOSE i \in 1..Len(X) : X[i] # 0 /\ \A h \in (i + 1)..Len(X) : X[h] = 0)

\* The natural whose limb i is worth V[i], a natural of at most 10001; G is
\* the set of the limbs that are 10000 or more. A carry of one enters a limb
\* when every limb between one of G and it is 9999
BigRipple(V, G) ==
    BigTrim([i \in 1..Len(V) |->
        (V[i] + (IF \E j \in G : j < i /\ \A h \in (j + 1)..(i - 1) : V[h] = 9999
                 THEN 1 ELSE 0)) % 10000])

\* The natural whose limb i is worth P[i], a natural below 2^31: t spreads
\* every P[i] over three limbs, which leaves limbs of at most 20019, and v
\* moves the upper part of each one limb up
BigCarry(P) ==
    LET p(i) == IF i >= 1 /\ i <= Len(P) THEN P[i] ELSE 0
        t(i) == (p(i) % 10000) + ((p(i - 1) \div 10000) % 10000) + (p(i - 2) \div 100000000)
        v(i) == (t(i) % 10000) + (t(i - 1) \div 10000)
    IN  BigRipple([i \in 1..(Len(P) + 3) |-> v(i)], {j \in 1..(Len(P) + 3) : v(j) >= 10000})

\* X * c + a for naturals c and a of up to five digits
BigMulAdd(X, c, a) ==
    BigCarry([i \in 1..Max(Len(X), 1) |->
                 (IF i <= Len(X) THEN X[i] * c ELSE 0) + (IF i = 1 THEN a ELSE 0)])

BigMul(X, c) == BigMulAdd(X, c, 0)

\* X + a for an integer a of one digit, X + a not negative: the carry passes
\* the limbs that are 9999 and the borrow those that are 0
BigAdd(X, a) ==
    LET low == (IF X = <<>> THEN 0 ELSE X[1]) + a
    IN  BigTrim([i \in 1..(Len(X) + 1) |->
            IF i = 1 THEN low % 10000
            ELSE ((IF i <= Len(X) THEN X[i] ELSE 0)
                  + (IF low >= 10000 /\ \A h \in 2..(i - 1) : X[h] = 9999 THEN 1 ELSE 0)
                  - (IF low < 0 /\ \A h \in 2..(i - 1) : X[h] = 0 THEN 1 ELSE 0)) % 10000])

\* The limbs i and up of X, modulo d, for a d of up to five digits that
\* divides 10^16, which is so of every power of two and of ten in use
BigRem(X, i, d) ==
    LET L(k) == IF i + k <= Len(X) THEN X[i + k] ELSE 0
    IN  (L(0) + ((10000 % d) * L(1)) + ((100000000 % d) * L(2))
              + ((((100000000 % d) * (10000 % d)) % d) * L(3))) % d

\* X divided by such a d: the remainder, then the limbs of the quotient
BigDiv(X, d) ==
    <<BigRem(X, 1, d)>> \o [i \in 1..Len(X) |-> ((BigRem(X, i + 1, d) * 10000) + X[i]) \div d]

\* A natural n that stands for a quotient rounded down, and whether anything
\* was cut off (st): one more division by d
DivStep(S, d) ==
    LET R == BigDiv(S.n, d)
    IN  [n |-> BigTrim(Tail(R)), st |-> S.st \/ Head(R) # 0]

RECURSIVE DivPow2(_, _)
DivPow2(S, b) ==
    IF S.n = <<>> \/ b = 0 THEN S
    ELSE IF b <= 15 THEN DivStep(S, 2 ^ b)
    ELSE DivPow2(DivPow2(S, b \div 2), b - (b \div 2))

DivPow10(S, a) ==
    IF a = 0 THEN S
    ELSE IF a \div 4 >= Len(S.n) THEN [n |-> <<>>, st |-> S.st \/ S.n # <<>>]
    ELSE DivStep([n |-> SubSeq(S.n, (a \div 4) + 1, Len(S.n)),
                  st |-> S.st \/ \E i \in 1..(a \div 4) : S.n[i] # 0], 10 ^ (a % 4))

RECURSIVE MulPow2(_, _)
MulPow2(X, b) ==
    IF X = <<>> \/ b = 0 THEN X
    ELSE IF b <= 15 THEN BigMul(X, 2 ^ b)
    ELSE MulPow2(MulPow2(X, b \div 2), b - (b \div 2))

RECURSIVE MulPow5(_, _)
MulPow5(X, b) ==
    IF X = <<>> \/ b = 0 THEN X
    ELSE IF b <= 7 THEN BigMul(X, 5 ^ b)
    ELSE MulPow5(MulPow5(X, b \div 2), b - (b \div 2))

\* The number of binary digits of X
RECURSIVE BitLen(_)
BitLen(X) ==
    IF X = <<>> THEN 0
    ELSE IF Len(X) = 1 THEN CHOOSE b \in 1..14 : 2^(b - 1) <= X[1] /\ X[1] < 2^b
    ELSE 13 + BitLen(BigTrim(Tail(BigDiv(X, 8192))))

Odd(X) == X # <<>> /\ X[1] % 2 = 1


\* Decimal digits, the most significant first, and limbs
PadTo(D, n) == [i \in 1..(n - Len(D)) |-> 0] \o D
LimbsOf(D) ==
    LET P == PadTo(D, 4 * ((Len(D) + 3) \div 4))
    IN  [i \in 1..(Len(P) \div 4) |->
            P[Len(P) - 4 * i + 1] * 1000 + P[Len(P) - 4 * i + 2] * 100
            + P[Len(P) - 4 * i + 3] * 10 + P[Len(P) - 4 * i + 4]]

\* The number of zeros at the end of a digit sequence
TrailingZeros(D) ==
    IF \A i \in 1..Len(D) : D[i] = 0 THEN Len(D)
    ELSE Len(D) - (CHOOSE i \in 1..Len(D) : D[i] # 0 /\ \A j \in (i + 1)..Len(D) : D[j] = 0)

StripLeading(D) ==
    IF \A i \in 1..Len(D) : D[i] = 0 THEN <<>>
    ELSE SubSeq(D, CHOOSE i \in 1..Len(D) : D[i] # 0 /\ \A j \in 1..(i - 1) : D[j] = 0, Len(D))
StripTrailing(D) == SubSeq(D, 1, Len(D) - TrailingZeros(D))

DigitsOf(X) ==
    StripLeading([j \in 1..(4 * Len(X)) |->
        (X[Len(X) - ((j - 1) \div 4)] \div (10 ^ (3 - ((j - 1) % 4)))) % 10])

\* The first j digits of A against those of B: -1, 0 or 1
CmpPrefix(A, B, j) ==
    IF SubSeq(A, 1, j) = SubSeq(B, 1, j) THEN 0
    ELSE LET i == CHOOSE i \in 1..j : A[i] # B[i] /\ SubSeq(A, 1, i - 1) = SubSeq(B, 1, i - 1)
         IN  IF A[i] > B[i] THEN 1 ELSE -1

RestNonZero(A, j) == \E i \in (j + 1)..Len(A) : A[i] # 0

\* The first j digits of A, plus one (not all of them 9)
IncPrefix(A, j) ==
    LET p == CHOOSE p \in 1..j : A[p] # 9 /\ \A h \in (p + 1)..j : A[h] = 9
    IN  [i \in 1..j |-> IF i < p THEN A[i] ELSE IF i = p THEN A[i] + 1 ELSE 0]

(* Number::toString picks, of the decimals that round to the double, one   *)
(* with the fewest digits, and of these the closest to the double, the     *)
(* even one on a tie. Pm, Pl and Ph are the digits of the double and of    *)
(* the two ends of the interval that rounds to it, all of one length and   *)
(* to one scale; the ends count when the double's last bit is even. With j *)
(* digits the candidates are the double cut after j digits (down) and that *)
(* plus one in the last place (up); up is the closer one when the digits   *)
(* cut off are more than half of the last place.                           *)
DnValid(Pm, Pl, even, j) ==
    \/ CmpPrefix(Pm, Pl, j) > 0
    \/ CmpPrefix(Pm, Pl, j) = 0 /\ even /\ ~RestNonZero(Pl, j)

UpValid(Pm, Ph, even, j) ==
    /\ RestNonZero(Pm, j)
    /\ \E i \in 1..j : Pm[i] # 9
    /\ \/ CmpPrefix(IncPrefix(Pm, j), Ph, j) < 0
       \/ CmpPrefix(IncPrefix(Pm, j), Ph, j) = 0 /\ (even \/ RestNonZero(Ph, j))

\* The closest of the candidates of j digits that round to the double
ShortestDigits(Pm, Pl, Ph, even, j) ==
    IF /\ UpValid(Pm, Ph, even, j)
       /\ \/ ~DnValid(Pm, Pl, even, j)
          \/ Pm[j + 1] > 5
          \/ Pm[j + 1] = 5 /\ (RestNonZero(Pm, j + 1) \/ Pm[j] % 2 = 1)
    THEN IncPrefix(Pm, j) ELSE SubSeq(Pm, 1, j)

\* The number of the fewest digits j with a candidate that rounds to the
\* double; ev is the decimal exponent of the digit before the first one
ShortestPadded(neg, Pm, Pl, Ph, even, ev) ==
    LET j == CHOOSE j \in 1..Len(Pm) :
                 /\ DnValid(Pm, Pl, even, j) \/ UpValid(Pm, Ph, even, j)
                 /\ \A h \in 1..(j - 1) : ~(DnValid(Pm, Pl, even, h) \/ UpValid(Pm, Ph, even, h))
    IN  Num(neg, StripTrailing(StripLeading(ShortestDigits(Pm, Pl, Ph, even, j))),
            (ev - j) + TrailingZeros(ShortestDigits(Pm, Pl, Ph, even, j)))

ShortestOf(neg, Dm, Dl, Dh, even, ev) ==
    ShortestPadded(neg, PadTo(Dm, Len(Dh)), PadTo(Dl, Len(Dh)), Dh, even, ev + Len(Dh))

\* c * 2^g as a natural: to the scale 10^g when g < 0
ScaleUp(c, g) == IF g >= 0 THEN MulPow2(c, g) ELSE MulPow5(c, -g)

\* The double cm * 2^g, cm four times its significand: the interval that
\* rounds to it reaches 2 * 2^g up, and as far down, or half as far (narrow)
\* when the double is a power of two
ShortestEdges(neg, cm, narrow, even, g) ==
    ShortestOf(neg, DigitsOf(ScaleUp(cm, g)),
               DigitsOf(ScaleUp(BigAdd(cm, IF narrow THEN -1 ELSE -2), g)),
               DigitsOf(ScaleUp(BigAdd(cm, 2), g)),
               even, IF g >= 0 THEN 0 ELSE g)

\* The number whose significand rounded to k, at the binary exponent q:
\* 0, Infinity beyond the largest double (2^53 - 1) * 2^971, or k * 2^q
DoubleOf(neg, k, q) ==
    IF k = <<>> THEN Zero(neg)
    ELSE IF k = MulPow2(<<1>>, 53)
    THEN (IF q + 1 > 971 THEN Infinity(neg)
          ELSE ShortestEdges(neg, BigMul(MulPow2(<<1>>, 52), 4), TRUE, TRUE, q - 1))
    ELSE IF q > 971 THEN Infinity(neg)
    ELSE ShortestEdges(neg, BigMul(k, 4), k = MulPow2(<<1>>, 52) /\ q > -1074, ~Odd(k), q - 2)

\* T is the number times 2^s, rounded down. The significand has 53 binary
\* digits, or fewer at the least exponent -1074 (a subnormal double); H is
\* twice the significand, rounded down, which is rounded to nearest, ties
\* to even
RoundScaled(neg, T, s) ==
    LET r == Max(BitLen(T.n) - 53, s - 1074)
        H == DivPow2(T, r - 1)
        half == BigTrim(Tail(BigDiv(H.n, 2)))
    IN  DoubleOf(neg,
                 IF Odd(H.n) /\ (H.st \/ Odd(half)) THEN BigAdd(half, 1) ELSE half,
                 r - s)

\* About x * log2(10), rounded down
Log2Floor(x) == IF x >= 0 THEN (3322 * x) \div 1000 ELSE -((3322 * (-x) + 999) \div 1000)

\* D * 10^E * 2^s is rounded down to a natural, s chosen to leave between 60
\* and 65 binary digits, and that is rounded to the double
RoundDecimal(neg, D, E, s) ==
    LET N == MulPow2(LimbsOf(D), Max(s, 0))
        M == [i \in 1..(Max(E, 0) \div 4) |-> 0] \o BigMul(N, 10 ^ (Max(E, 0) % 4))
    IN  RoundScaled(neg, DivPow2(DivPow10([n |-> M, st |-> FALSE], Max(-E, 0)), Max(-s, 0)), s)

\* The double nearest to D * 10^E, D digits without zeros at either end. A
\* decimal of up to 15 digits between 1e-307 and 1e308 is the shortest one
\* of its double.
ToDouble(neg, D, E) ==
    IF D = <<>> THEN Zero(neg)
    ELSE IF E + Len(D) - 1 > 308 THEN Infinity(neg)
    ELSE IF E + Len(D) - 1 < -324 THEN Zero(neg)
    ELSE IF Len(D) <= 15 /\ E + Len(D) - 1 < 308 /\ E + Len(D) - 1 > -308 THEN Num(neg, D, E)
    ELSE RoundDecimal(neg, D, E, 60 - Log2Floor(E + Len(D) - 1))

\* The number of the digits D times 10^E, D with zeros at either end or empty
NumberOfDigits(neg, D, E) ==
    ToDouble(neg, StripTrailing(StripLeading(D)), E + (TrailingZeros(D) % Max(Len(D), 1)))

HexDigits == "0123456789abcdef"

\* Index of one character in an alphabet string, 0 when absent
IndexIn(alphabet, c) ==
    IF \E i \in 1..Len(alphabet) : SubSeq(alphabet, i, i) = c
    THEN CHOOSE i \in 1..Len(alphabet) : SubSeq(alphabet, i, i) = c
    ELSE 0

\* The value of a digit of a numeric literal, 16 for any other character
DigitOf(c) ==
    IF IndexIn(HexDigits, c) > 0 THEN IndexIn(HexDigits, c) - 1
    ELSE IF IndexIn("ABCDEF", c) > 0 THEN IndexIn("ABCDEF", c) + 9
    ELSE 16

\* The natural that the digits X and then s[i..j] denote in the given radix;
\* the digits of the left half are taken in before those of the right half
RECURSIVE DigitsAfter(_, _, _, _, _)
DigitsJoin(left, s, mid, j, radix) ==
    IF left = <<>> THEN DigitsAfter(<<>>, s, mid + 1, j, radix)
    ELSE DigitsAfter(left, s, mid + 1, j, radix)
DigitsAfter(X, s, i, j, radix) ==
    IF j < i THEN X
    ELSE IF i = j THEN BigMulAdd(X, radix, DigitOf(CharAt(s, i)))
    ELSE DigitsJoin(DigitsAfter(X, s, i, (i + j) \div 2, radix), s, (i + j) \div 2, j, radix)
DigitsValue(s, i, j, radix) == DigitsAfter(<<>>, s, i, j, radix)

\* First index >= i that holds no decimal digit
SkipDigits(s, i) ==
    IF \E j \in i..Len(s) : DigitOf(CharAt(s, j)) >= 10
    THEN CHOOSE j \in i..Len(s) :
            DigitOf(CharAt(s, j)) >= 10 /\ \A h \in i..(j - 1) : DigitOf(CharAt(s, h)) < 10
    ELSE IF i > Len(s) THEN i ELSE Len(s) + 1

\* The digits of the mantissa of a decimal literal: the digits p..intEnd-1
\* before the dot, then the nFrac digits ending before mantEnd
MantissaDigits(s, p, intEnd, nFrac, mantEnd) ==
    [h \in 1..((intEnd - p) + nFrac) |->
        IF h <= intEnd - p THEN DigitOf(CharAt(s, p + h - 1))
        ELSE DigitOf(CharAt(s, mantEnd - nFrac + (h - (intEnd - p)) - 1))]

\* The exponent the digits eStart..eEnd-1 denote; with a mantissa of fewer
\* than 99000000 digits every exponent from 10^8 on is out of the range of
\* the doubles alike
ExponentValue(s, eStart, eEnd) ==
    LET X == DigitsValue(s, eStart, eEnd - 1, 10)
    IN  IF Len(X) > 2 THEN 100000000
        ELSE IF X = <<>> THEN 0
        ELSE IF Len(X) = 1 THEN X[1]
        ELSE X[1] + 10000 * X[2]

\* The value of a decimal literal of s: sign at i, digits p..intEnd-1, nFrac
\* fraction digits ending before mantEnd, exponent digits eStart..eEnd-1
DecimalValue(s, i, p, intEnd, nFrac, mantEnd, eStart, eEnd) ==
    IF (intEnd - p) + nFrac = 0
    THEN [value |-> NaN, next |-> i]
    ELSE [value |-> NumberOfDigits(CharAt(s, i) = "-",
                        MantissaDigits(s, p, intEnd, nFrac, mantEnd),
                        (IF eEnd > eStart
                         THEN (IF CharAt(s, eStart - 1) = "-" THEN -1 ELSE 1)
                              * ExponentValue(s, eStart, eEnd)
                         ELSE 0) - nFrac),
          next  |-> IF eEnd > eStart THEN eEnd ELSE mantEnd]

\* The exponent part: e or E, an optional sign, digits; without a digit the
\* literal ends before the e (eStart = eEnd)
DecimalExponent(s, i, p, intEnd, nFrac, mantEnd, eStart) ==
    DecimalValue(s, i, p, intEnd, nFrac, mantEnd, eStart,
                 IF CharAt(s, mantEnd) \in {"e", "E"} THEN SkipDigits(s, eStart) ELSE eStart)

\* The fraction part: the mantissa ends at mantEnd, after the dot and its
\* digits or, when no dot follows, at intEnd
DecimalFraction(s, i, p, intEnd, mantEnd) ==
    DecimalExponent(s, i, p, intEnd,
                    IF mantEnd > intEnd THEN mantEnd - intEnd - 1 ELSE 0,
                    mantEnd,
                    IF CharAt(s, mantEnd + 1) \in {"+", "-"} THEN mantEnd + 2 ELSE mantEnd + 1)

\* The integer part: digits from p on, to intEnd; a dot with no digit on
\* either side is no part of a literal
DecimalInteger(s, i, p, intEnd) ==
    DecimalFraction(s, i, p, intEnd,
                    IF CharAt(s, intEnd) = "." /\ SkipDigits(s, intEnd + 1) - p > 1
                    THEN SkipDigits(s, intEnd + 1) ELSE intEnd)

\* After the optional sign at i: Infinity, or a decimal number
DecimalUnsigned(s, i, p) ==
    IF StartsWithAt(s, "Infinity", p)
    THEN [value |-> Infinity(CharAt(s, i) = "-"), next |-> p + 8]
    ELSE DecimalInteger(s, i, p, SkipDigits(s, p))

\* The longest prefix of s, from index i, that is a StrDecimalLiteral:
\* [value, next index]; value NaN when there is none.
StrDecimalPrefix(s, i) ==
    DecimalUnsigned(s, i, IF CharAt(s, i) \in {"+", "-"} THEN i + 1 ELSE i)

\* parseFloat(s): leading white space skipped, then the longest numeric prefix
parseFloat(s) == StrDecimalPrefix(s, SkipSpaces(s, 1)).value

\* The radix of a 0x / 0o / 0b literal, 0 for any other text
RadixOf(t) ==
    IF Len(t) < 2 \/ CharAt(t, 1) # "0" THEN 0
    ELSE IF CharAt(t, 2) \in {"x", "X"} THEN 16
    ELSE IF CharAt(t, 2) \in {"o", "O"} THEN 8
    ELSE IF CharAt(t, 2) \in {"b", "B"} THEN 2
    ELSE 0

\* The number of a 0x / 0o / 0b literal t: digits of the radix only, at
\* least one
RadixNumber(t) ==
    IF Len(t) > 2 /\ \A j \in 3..Len(t) : DigitOf(CharAt(t, j)) < RadixOf(t)
    THEN NumberOfDigits(FALSE, DigitsOf(DigitsValue(t, 3, Len(t), RadixOf(t))), 0)
    ELSE NaN

\* The number of a trimmed text t whose longest decimal prefix is r: the
\* whole text must be a numeric literal; "" is 0
NumberOfTrimmed(t, r) ==
    IF t = "" THEN Zero(FALSE)
    ELSE IF RadixOf(t) > 0 THEN RadixNumber(t)
    ELSE IF r.value # NaN /\ r.next > Len(t) THEN r.value
    ELSE NaN

\* Number(s)
Number(s) == NumberOfTrimmed(trim(s), StrDecimalPrefix(trim(s), 1))

\* isNaN(x) of a number
isNaN(x) == x = NaN

(***************************************************************************)
(* Track parsers (App.tsx)                                                 *)
(***************************************************************************)

NoTrackPointsMsg == "No track points found in GPX file."
NoCoordinatesMsg == "No coordinates found in KML file."

\* A value thrown with `throw new Error(message)`
NewError(message) == [isError |-> TRUE, message |-> message]

Returned(value) == [ok |-> TRUE, value |-> value]
Threw(thrown) == [ok |-> FALSE, thrown |-> thrown]

\* One attempt of /<trkpt\s+lat="([^"]+)"\s+lon="([^"]+)"/ at index i:
\* [found, lat, lon, next], the groups as texts, next the index after the match
MatchTrkpt(s, i) ==
    LET ws1   == i + 6
        lat0  == SkipSpaces(s, ws1)
        latV  == lat0 + 5
        latQ  == IndexOfChar(s, "\"", latV)
        ws2   == latQ + 1
        lon0  == SkipSpaces(s, ws2)
        lonV  == lon0 + 5
        lonQ  == IndexOfChar(s, "\"", lonV)
        found == /\ StartsWithAt(s, "<trkpt", i)
                 /\ lat0 > ws1
                 /\ StartsWithAt(s, "lat=\"", lat0)
                 /\ latQ <= Len(s) /\ latQ > latV
                 /\ lon0 > ws2
                 /\ StartsWithAt(s, "lon=\"", lon0)
                 /\ lonQ <= Len(s) /\ lonQ > lonV
    IN  IF found
        THEN [found |-> TRUE, lat |-> SubSeq(s, latV, latQ - 1),
              lon |-> SubSeq(s, lonV, lonQ - 1), next |-> lonQ + 1]
        ELSE [found |-> FALSE, lat |-> "", lon |-> "", next |-> i + 1]

\* The push of the loop body: one Coordinate per match
TrackPointCoordinate(m) == [lat |-> parseFloat(m.lat), lon |-> parseFloat(m.lon)]

\* The matches that begin at the indices lo..hi, none before index from,
\* where the match before ended: [coords, next], next the index after the
\* last match
RECURSIVE TrackPointsRange(_, _, _, _)
TrackPointsJoin(left, s, mid, hi) ==
    LET right == TrackPointsRange(s, mid + 1, hi, left.next)
    IN  [coords |-> left.coords \o right.coords, next |-> right.next]
TrackPointsRange(s, lo, hi, from) ==
    IF lo > hi THEN [coords |-> <<>>, next |-> from]
    ELSE IF lo = hi
    THEN (IF lo >= from /\ MatchTrkpt(s, lo).found
          THEN [coords |-> <<TrackPointCoordinate(MatchTrkpt(s, lo))>>,
                next |-> MatchTrkpt(s, lo).next]
          ELSE [coords |-> <<>>, next |-> from])
    ELSE TrackPointsJoin(TrackPointsRange(s, lo, (lo + hi) \div 2, from), s, (lo + hi) \div 2, hi)

\* gpxString.matchAll(...) from index i on, each match pushed as a Coordinate
TrackPoints(s, i) == TrackPointsRange(s, i, Len(s), i).coords

\* A parser without the check for an empty result
parseGpxNoCheck(gpxString) == Returned(TrackPoints(gpxString, 1))

\* if (coords.length === 0) throw new Error(...); return coords
NonEmpty(coords, message) ==
    IF Len(coords) = 0 THEN Threw(NewError(message)) ELSE Returned(coords)

parseGpx(gpxString) == NonEmpty(TrackPoints(gpxString, 1), NoTrackPointsMsg)

\* One attempt of /<coordinates>([^<]+)<\/coordinates>/s at index i
CoordinatesAt(s, i) ==
    /\ StartsWithAt(s, "<coordinates>", i)
    /\ IndexOfChar(s, "<", i + 13) > i + 13
    /\ StartsWithAt(s, "</coordinates>", IndexOfChar(s, "<", i + 13))

\* /<coordinates>([^<]+)<\/coordinates>/s.exec(s), tried from index i on:
\* the first group of the first match, or null
CoordinatesTag(s, i) ==
    IF \E j \in i..Len(s) : CoordinatesAt(s, j)
    THEN LET j == CHOOSE j \in i..Len(s) :
                     CoordinatesAt(s, j) /\ \A h \in i..(j - 1) : ~CoordinatesAt(s, h)
         IN  SubSeq(s, j + 13, IndexOfChar(s, "<", j + 13) - 1)
    ELSE null

\* fields.map(Number)
MapNumber(fields) == [k \in 1..Len(fields) |-> Number(fields[k])]

\* const [lon, lat] = pair.split(',').map(Number); a missing field is
\* undefined, and isNaN(undefined) is true
PairCoordinate(numbers) ==
    [lat |-> IF Len(numbers) >= 2 THEN numbers[2] ELSE NaN, lon |-> numbers[1]]

\* if (!isNaN(lon) && !isNaN(lat)) coords.push({ lat, lon })
PushPair(c) == IF ~isNaN(c.lon) /\ ~isNaN(c.lat) THEN <<c>> ELSE <<>>

\* The accepted pairs among coordPairs[lo..hi], pushed in order
RECURSIVE PushPairsRange(_, _, _)
PushPairsRange(coordPairs, lo, hi) ==
    IF lo > hi THEN <<>>
    ELSE IF lo = hi THEN PushPair(PairCoordinate(MapNumber(SplitComma(coordPairs[lo], 1))))
    ELSE PushPairsRange(coordPairs, lo, (lo + hi) \div 2)
         \o PushPairsRange(coordPairs, ((lo + hi) \div 2) + 1, hi)

\* coordPairs.forEach(...): the accepted pairs pushed in order
PushPairs(coordPairs) == PushPairsRange(coordPairs, 1, Len(coordPairs))

\* if (coordinatesTag && coordinatesTag[1]) { ... }
KmlPairs(coordinatesTag) ==
    IF coordinatesTag # null THEN PushPairs(SplitSpaces(trim(coordinatesTag), 1)) ELSE <<>>

parseKml(kmlString) == NonEmpty(KmlPairs(CoordinatesTag(kmlString, 1)), NoCoordinatesMsg)

(***************************************************************************)
(* Parser inputs: texts assembled from fragments, each fragment annotated  *)
(* with what it denotes (the annotation is never read by the parsers): a   *)
(* coordinate is annotated with the digits that JavaScript prints for it.  *)
(***************************************************************************)

MaxMarkers == 3    \* fragments per GPX text
MaxTokens == 3     \* tokens per KML coordinates block

Coordinate(lat, lon) == [lat |-> lat, lon |-> lon]

\* Sequences of at most n elements of S
SeqUpTo(S, n) == UNION {[1..k -> S] : k \in 0..n}

\* point: the fragment is a well-formed <trkpt> element with numeric lat and lon
GpxFragments == <<
    [text |-> "<trkpt lat=\"45.0\" lon=\"7.5\"/>",
     point |-> TRUE, lat |-> Num(FALSE, <<4, 5>>, 0), lon |-> Num(FALSE, <<7, 5>>, -1)],
    [text |-> "<trkpt lat=\"45.123456789012345678\" lon=\"7.6\"><ele>3</ele></trkpt>",
     point |-> TRUE,
     lat |-> Num(FALSE, <<4, 5, 1, 2, 3, 4, 5, 6, 7, 8, 9, 0, 1, 2, 3, 4, 4>>, -15),
     lon |-> Num(FALSE, <<7, 6>>, -1)],
    [text |-> "<trkpt\n   lat=\"-45.25\"\tlon=\"-7\">\n</trkpt>",
     point |-> TRUE, lat |-> Num(TRUE, <<4, 5, 2, 5>>, -2), lon |-> Num(TRUE, <<7>>, 0)],
    [text |-> "<trkpt lon=\"7.5\" lat=\"45.0\"/>",
     point |-> TRUE, lat |-> Num(FALSE, <<4, 5>>, 0), lon |-> Num(FALSE, <<7, 5>>, -1)],
    [text |-> "<trkpt lat=\"north\" lon=\"7.5\"/>",
     point |-> FALSE, lat |-> NaN, lon |-> NaN],
    [text |-> "<trkpt lat=\"45.0\"/>",
     point |-> FALSE, lat |-> NaN, lon |-> NaN],
    [text |-> "<wpt lat=\"1.0\" lon=\"2.0\"/>",
     point |-> FALSE, lat |-> NaN, lon |-> NaN],
    [text |-> "<name>lat lon</name>\n",
     point |-> FALSE, lat |-> NaN, lon |-> NaN] >>

\* valid: the token is "lon,lat" or "lon,lat,alt" with numeric lon and lat
KmlTokens == <<
    [text |-> "7.5,45.0,0",
     valid |-> TRUE, lat |-> Num(FALSE, <<4, 5>>, 0), lon |-> Num(FALSE, <<7, 5>>, -1)],
    [text |-> "7.6,45.123456789012345678",
     valid |-> TRUE,
     lat |-> Num(FALSE, <<4, 5, 1, 2, 3, 4, 5, 6, 7, 8, 9, 0, 1, 2, 3, 4, 4>>, -15),
     lon |-> Num(FALSE, <<7, 6>>, -1)],
    [text |-> "-7,-45.25,12.5",
     valid |-> TRUE, lat |-> Num(TRUE, <<4, 5, 2, 5>>, -2), lon |-> Num(TRUE, <<7>>, 0)],
    [text |-> "east,45.0",
     valid |-> FALSE, lat |-> NaN, lon |-> NaN],
    [text |-> "7.5,north,0",
     valid |-> FALSE, lat |-> NaN, lon |-> NaN],
    [text |-> "7.5",
     valid |-> FALSE, lat |-> NaN, lon |-> NaN],
    [text |-> "7.6,",
     valid |-> FALSE, lat |-> NaN, lon |-> NaN] >>

KmlSeparators == {" ", "\n\t", " "}

\* What surrounds the tokens: one coordinates block, bare or inside a
\* document, or no coordinates block at all
KmlWraps == {
    [block |-> TRUE,  open |-> "<coordinates>", close |-> "</coordinates>"],
    [block |-> TRUE,  open |-> "<kml><LineString><coordinates>\n  ",
                      close |-> "\n</coordinates></LineString></kml>"],
    [block |-> FALSE, open |-> "<kml><name>", close |-> "</name></kml>"] }

RECURSIVE Concat(_, _)
Concat(frags, parts) ==
    IF parts = <<>> THEN "" ELSE frags[Head(parts)].text \o Concat(frags, Tail(parts))

RECURSIVE Join(_, _, _)
Join(frags, parts, sep) ==
    IF parts = <<>> THEN ""
    ELSE IF Len(parts) = 1 THEN frags[Head(parts)].text
    ELSE frags[Head(parts)].text \o sep \o Join(frags, Tail(parts), sep)

GpxInputs ==
    {[format |-> "gpx", parts |-> ps, block |-> FALSE, text |-> Concat(GpxFragments, ps)] :
        ps \in SeqUpTo(DOMAIN GpxFragments, MaxMarkers)}

KmlInputs ==
    {[format |-> "kml", parts |-> ps, block |-> w.block,
      text |-> w.open \o Join(KmlTokens, ps, sep) \o w.close] :
        ps \in SeqUpTo(DOMAIN KmlTokens, MaxTokens), sep \in KmlSeparators, w \in KmlWraps}

\* The coordinates that the annotated fragments denote, in document order
RECURSIVE ExpectedGpx(_)
ExpectedGpx(parts) ==
    IF parts = <<>> THEN <<>>
    ELSE (IF GpxFragments[Head(parts)].point
          THEN <<Coordinate(GpxFragments[Head(parts)].lat, GpxFragments[Head(parts)].lon)>>
          ELSE <<>>) \o ExpectedGpx(Tail(parts))

RECURSIVE ExpectedKml(_)
ExpectedKml(parts) ==
    IF parts = <<>> THEN <<>>
    ELSE (IF KmlTokens[Head(parts)].valid
          THEN <<Coordinate(KmlTokens[Head(parts)].lat, KmlTokens[Head(parts)].lon)>>
          ELSE <<>>) \o ExpectedKml(Tail(parts))

(***************************************************************************)
(* Messages and values of the generate action                              *)
(***************************************************************************)

UnsupportedFileMsg == "Unsupported file type. Please upload a .gpx or .kml file."
ParseFallbackMsg == "Failed to parse file."
ReadErrorMsg == "Error reading file."
MapNotReadyMsg == "Map component is not ready."
SnapshotProgressMsg == "Generating map snapshot for AI..."
NoMapImageMsg == "Could not generate map image."
FinalizingMsg == "Finalizing video file..."
UnknownErrorMsg == "An unknown error occurred during video generation."
NoDownloadLinkMsg == "Video generation completed, but no download link was found."
InvalidApiKeyMsg == "The provided API Key is invalid. Please check your configuration."
GenerateFailedMsg == "Failed to generate video. The AI model may be busy or an error occurred."
DownloadFailedMsg == "Could not download the generated video file."
ApiKeyNotValid == "API key not valid"

\* The progress messages of constants.ts, which is not among the sources
VEO_LOADING_MESSAGES == <<"VEO_LOADING_MESSAGES[0]", "VEO_LOADING_MESSAGES[1]",
                          "VEO_LOADING_MESSAGES[2]">>

\* A thrown or rejected value that is no Error instance (a string)
NonError(text) == [isError |-> FALSE, message |-> text]

\* JavaScript truthiness of a value that is a string, null or undefined
Truthy(x) == x \notin {null, "undefined", ""}

\* A variable holding a timer handle: declared without a value, or assigned
UndefinedHandle == [defined |-> FALSE, value |-> 0]
Handle(h) == [defined |-> TRUE, value |-> h]

\* JavaScript truthiness of such a variable
TruthyHandle(x) == x.defined /\ x.value # 0

\* s.includes(p)
Includes(s, p) == \E i \in 1..(Len(s) + 1) : StartsWithAt(s, p, i)

\* array.indexOf(x), zero-based, -1 when absent
IndexOf(array, x) ==
    IF \E i \in 1..Len(array) : array[i] = x
    THEN (CHOOSE i \in 1..Len(array) : array[i] = x /\ \A j \in 1..(i - 1) : array[j] # x) - 1
    ELSE -1

\* err instanceof Error ? err.message : fallback
MessageOf(err, fallback) == IF err.isError THEN err.message ELSE fallback

(***************************************************************************)
(* Files the user can select, and what the outside world can answer        *)
(***************************************************************************)

MaxReads == 2      \* FileReaders pending at once
MaxCalls == 2      \* call slots for handleGenerateVideo invocations
MaxPolls == 3      \* status queries the service answers with done = false

\* format: what the name's extension says; points: how many track points
\* the file's text denotes in that format
Files == <<
    [name |-> "track.gpx", format |-> "gpx", points |-> 2,
     content |-> "<gpx><trk><trkseg>\n<trkpt lat=\"45.0\" lon=\"7.5\"/>\n<trkpt lat=\"45.1\" lon=\"7.6\"/>\n</trkseg></trk></gpx>"],
    [name |-> "Route.KML", format |-> "kml", points |-> 2,
     content |-> "<kml><LineString><coordinates>7.5,45.0,0 7.6,45.1,0</coordinates></LineString></kml>"],
    [name |-> "empty.GPX", format |-> "gpx", points |-> 0,
     content |-> "<gpx><wpt lat=\"45.0\" lon=\"7.5\"/></gpx>"],
    [name |-> "empty.kml", format |-> "kml", points |-> 0,
     content |-> "<kml><Placemark><name>7.5,45.0</name><coordinates>\n</coordinates></Placemark></kml>"],
    [name |-> "notes.txt", format |-> "other", points |-> 0,
     content |-> "<trkpt lat=\"45.0\" lon=\"7.5\"/>"] >>

NoFile == 0
CallIds == 1..MaxCalls

\* getMapAsBase64Image(): the PNG data, an empty data URL, or a rejection
\* with a string
SnapshotOutcomes == {
    Returned("iVBORw0KGgo="),
    Returned(""),
    Threw(NonError("SVG element not found")),
    Threw(NonError("Could not get canvas context")),
    Threw(NonError("Failed to load SVG as image: [object Event]")) }

VideoUri == "https://generativelanguage.googleapis.com/v1beta/files/v1:download?alt=media"

\* What generateVideos and getVideosOperation resolve with: done, and
\* response?.generatedVideos?.[0]?.video?.uri
Operations == {
    [done |-> FALSE, uri |-> "undefined"],
    [done |-> TRUE,  uri |-> VideoUri],
    [done |-> TRUE,  uri |-> "undefined"],
    [done |-> TRUE,  uri |-> ""] }

\* What they reject with. invalidKey: the value is an Error whose message
\* contains "API key not valid" (a thrown string has no message)
ApiFailures == {
    [thrown |-> NewError("API key not valid. Please pass a valid API key."), invalidKey |-> TRUE],
    [thrown |-> NewError("{\"error\":{\"code\":400,\"message\":\"API key not valid.\"}}"), invalidKey |-> TRUE],
    [thrown |-> NewError("api key not valid"), invalidKey |-> FALSE],
    [thrown |-> NewError("API key not  valid"), invalidKey |-> FALSE],
    [thrown |-> NewError("The model is overloaded. Please try again later."), invalidKey |-> FALSE],
    [thrown |-> NewError("Failed to fetch"), invalidKey |-> FALSE],
    [thrown |-> NewError(""), invalidKey |-> FALSE],
    [thrown |-> NonError("API key not valid"), invalidKey |-> FALSE] }

ApiResults == {Returned(op) : op \in Operations} \cup {Threw(f.thrown) : f \in ApiFailures}

\* What fetch() settles with
FetchOutcomes == {
    Returned([ok |-> TRUE,  status |-> "200"]),
    Returned([ok |-> FALSE, status |-> "403"]),
    Returned([ok |-> FALSE, status |-> "500"]),
    Threw(NewError("Failed to fetch")) }

\* What response.blob() settles with
BlobOutcomes == {Returned("video/mp4 bytes"), Threw(NewError("network error"))}

\* URL.createObjectURL(blob)
createObjectURL(blob) == "blob:" \o blob

(***************************************************************************)
(* State                                                                   *)
(***************************************************************************)

NoFailure == [stage |-> "none", thrown |-> NonError("")]
NoResponse == [ok |-> FALSE, status |-> "none"]
NoRead == [file |-> NoFile, event |-> "none", result |-> Threw(NonError(""))]

\* One handleGenerateVideo invocation. pc is the await it is suspended at;
\* waits, queries, notDone, failure, response and shown record what it did.
NewCall == [pc |-> "idle",
            messageInterval |-> UndefinedHandle,
            operation |-> [done |-> FALSE, uri |-> "undefined"],
            videoUri |-> "undefined",
            waits |-> 0,        \* sleep(10000) calls
            queries |-> 0,      \* getVideosOperation calls
            notDone |-> 0,      \* operations observed with done = false
            failure |-> NoFailure,   \* where it failed, and the value first thrown
            response |-> NoResponse, \* what fetch() resolved with
            shown |-> <<>>,     \* the messages it handed to setError
            route |-> null]     \* routeData at the click

InFlight(c) == calls[c].pc \notin {"idle", "finished"}

AppInit ==
    /\ routeData = null
    /\ fileName = ""
    /\ isLoading = FALSE
    /\ progressMessage = ""
    /\ videoUrl = null
    /\ error = null
    /\ readers = <<>>
    /\ lastRead = NoRead
    /\ calls = [c \in CallIds |-> NewCall]
    /\ intervals = {}

appVars == <<routeData, fileName, isLoading, progressMessage, videoUrl, error,
             readers, lastRead, calls, intervals>>
parseVars == <<parseIn, parseOut>>

\* What the render shows for a state
FileInputMounted == routeData = null /\ ~isLoading
\* A Generate Video button that stays on the page while a video is generated
GenerateButtonShownWhileLoading == routeData # null /\ videoUrl = null

GenerateButtonShown == routeData # null /\ ~isLoading /\ videoUrl = null
StartOverShown == videoUrl # null

\* mapRef.current: the handle of the RouteMap, mounted while routeData is set
mapRef == IF routeData # null THEN "RouteMapHandle" ELSE null

(***************************************************************************)
(* File selection (App.tsx)                                                *)
(***************************************************************************)

\* The setters of resetState() other than setFileName
resetFields ==
    /\ routeData' = null
    /\ isLoading' = FALSE
    /\ progressMessage' = ""
    /\ videoUrl' = null
    /\ error' = null

\* resetState(), as far as the React state goes
resetState == resetFields /\ fileName' = ""

\* The change event of the file input. selected is event.target.files?.[0]
\* as read after resetState() has emptied the input: a file, or none.
handleFileChange(selected) ==
    /\ FileInputMounted
    /\ resetFields
    /\ IF selected = NoFile
       THEN fileName' = "" /\ UNCHANGED readers
       ELSE /\ Len(readers) < MaxReads
            /\ fileName' = Files[selected].name
            /\ readers' = Append(readers, selected)
    /\ UNCHANGED <<lastRead, calls, intervals, parseVars>>

\* name.toLowerCase().endsWith('.gpx') and name.toLowerCase().endsWith('.kml').
\* toLowerCase changes no character's place in these texts, and of the
\* characters a string here can hold only the capitals G, P, X, K, M and L
\* become the letters of the two endings.
IsGpxName(name) ==
    /\ Len(name) >= 4
    /\ CharAt(name, Len(name) - 3) = "."
    /\ CharAt(name, Len(name) - 2) \in {"g", "G"}
    /\ CharAt(name, Len(name) - 1) \in {"p", "P"}
    /\ CharAt(name, Len(name)) \in {"x", "X"}
IsKmlName(name) ==
    /\ Len(name) >= 4
    /\ CharAt(name, Len(name) - 3) = "."
    /\ CharAt(name, Len(name) - 2) \in {"k", "K"}
    /\ CharAt(name, Len(name) - 1) \in {"m", "M"}
    /\ CharAt(name, Len(name)) \in {"l", "L"}

\* The try block of reader.onload: the coordinates, or the Error thrown
LoadFile(file) ==
    IF IsGpxName(file.name) THEN parseGpx(file.content)
    ELSE IF IsKmlName(file.name) THEN parseKml(file.content)
    ELSE Threw(NewError(UnsupportedFileMsg))

\* LoadFile of every file of Files, computed once
LoadedFiles == [f \in DOMAIN Files |-> LoadFile(Files[f])]

RemoveAt(seq, i) == SubSeq(seq, 1, i - 1) \o SubSeq(seq, i + 1, Len(seq))

\* reader.onload of the i-th pending reader
ReaderLoad(i) ==
    /\ i \in 1..Len(readers)
    /\ LET result == LoadedFiles[readers[i]]
       IN  /\ IF result.ok
              THEN routeData' = result.value /\ UNCHANGED error
              ELSE error' = MessageOf(result.thrown, ParseFallbackMsg) /\ routeData' = null
           /\ lastRead' = [file |-> readers[i], event |-> "load", result |-> result]
    /\ readers' = RemoveAt(readers, i)
    /\ UNCHANGED <<fileName, isLoading, progressMessage, videoUrl, calls, intervals, parseVars>>

\* reader.onerror of the i-th pending reader
ReaderError(i) ==
    /\ i \in 1..Len(readers)
    /\ error' = ReadErrorMsg
    /\ routeData' = null
    /\ lastRead' = [file |-> readers[i], event |-> "error", result |-> Threw(NonError(""))]
    /\ readers' = RemoveAt(readers, i)
    /\ UNCHANGED <<fileName, isLoading, progressMessage, videoUrl, calls, intervals, parseVars>>

\* The Start Over button
StartOver ==
    /\ StartOverShown
    /\ resetState
    /\ UNCHANGED <<readers, lastRead, calls, intervals, parseVars>>

(***************************************************************************)
(* The video job client (generateRouteVideo, fetchVideoBlob)               *)
(***************************************************************************)

\* A catch block that throws what it caught again
generateRouteVideoCatchRethrow(caught) ==
    IF caught.isError /\ Includes(caught.message, ApiKeyNotValid)
    THEN NewError(InvalidApiKeyMsg)
    ELSE caught

\* The catch block of generateRouteVideo: the Error it throws for a caught value
generateRouteVideoCatch(caught) ==
    IF caught.isError /\ Includes(caught.message, ApiKeyNotValid)
    THEN NewError(InvalidApiKeyMsg)
    ELSE NewError(GenerateFailedMsg)

\* A polling loop that gives up after two waits
PollAgainBounded(call, operation) == ~operation.done /\ call.waits < 2

\* The condition of the polling loop: while (!operation.done)
PollAgain(call, operation) == ~operation.done

\* A loop body that queries at once, without the sleep
AfterNotDoneNoSleep(call) ==
    [call EXCEPT !.pc = "query", !.queries = @ + 1, !.notDone = @ + 1]

\* The loop body is entered: sleep(10000) is called
AfterNotDone(call) ==
    [call EXCEPT !.pc = "sleep", !.waits = @ + 1, !.notDone = @ + 1]

\* The lines after the loop, inside the try block: the link, or the Error thrown
DownloadLink(operation) ==
    IF ~Truthy(operation.uri)
    THEN Threw(NewError(NoDownloadLinkMsg))
    ELSE Returned(operation.uri)

\* The catch block of fetchVideoBlob
fetchVideoBlobCatch(caught) == NewError(DownloadFailedMsg)

\* A fetch that takes every response for a success
ResponseRejectedNever(response) == FALSE

\* if (!response.ok)
ResponseRejected(response) == ~response.ok

\* throw new Error(`Failed to download video file. Status: ${response.status}`)
ResponseError(response) == NewError("Failed to download video file. Status: " \o response.status)

(***************************************************************************)
(* The generate action (handleGenerateVideo)                               *)
(***************************************************************************)

\* The handle setInterval returns: a positive integer not in use
NewHandle == CHOOSE h \in 1..(Cardinality(intervals) + 1) : h \notin intervals

\* A finally block that leaves the timer running
FinallyIntervalsLeak(call) == intervals

\* The timers left running by the finally block:
\* if (messageInterval) clearInterval(messageInterval)
FinallyIntervals(call) ==
    IF TruthyHandle(call.messageInterval)
    THEN intervals \ {call.messageInterval.value}
    ELSE intervals

\* The catch block and the finally block, for a value caught at the given
\* stage; first is the value first thrown there
CatchFinally(c, call, stage, first, caught) ==
    /\ error' = MessageOf(caught, UnknownErrorMsg)
    /\ isLoading' = FALSE
    /\ intervals' = FinallyIntervals(call)
    /\ progressMessage' = ""
    /\ calls' = [calls EXCEPT ![c] =
                    [call EXCEPT !.pc = "finished",
                                 !.failure = [stage |-> stage, thrown |-> first],
                                 !.shown = Append(@, MessageOf(caught, UnknownErrorMsg))]]
    /\ UNCHANGED <<routeData, fileName, videoUrl, readers, lastRead, parseVars>>

\* The free call slot a click uses
FreeSlot(c) == ~InFlight(c) /\ \A d \in CallIds : d < c => InFlight(d)

\* A click on Generate Video, up to the first await
handleGenerateVideo(c) ==
    /\ GenerateButtonShown
    /\ FreeSlot(c)
    /\ IF mapRef = null
       THEN /\ error' = MapNotReadyMsg
            /\ calls' = [calls EXCEPT ![c] =
                            [NewCall EXCEPT !.pc = "finished", !.shown = <<MapNotReadyMsg>>,
                                            !.route = routeData]]
            /\ UNCHANGED <<isLoading, videoUrl, progressMessage>>
       ELSE /\ isLoading' = TRUE
            /\ videoUrl' = null
            /\ error' = null
            /\ progressMessage' = SnapshotProgressMsg
            /\ calls' = [calls EXCEPT ![c] =
                            [NewCall EXCEPT !.pc = "snapshot", !.route = routeData]]
    /\ UNCHANGED <<routeData, fileName, readers, lastRead, intervals, parseVars>>

\* getMapAsBase64Image() settles; on an image the timer starts and the job
\* is submitted
SnapshotSettles(c, outcome) ==
    /\ calls[c].pc = "snapshot"
    /\ outcome \in SnapshotOutcomes
    /\ IF ~outcome.ok
       THEN CatchFinally(c, calls[c], "snapshot", outcome.thrown, outcome.thrown)
       ELSE IF ~Truthy(outcome.value)
       THEN CatchFinally(c, calls[c], "snapshot", NewError(NoMapImageMsg), NewError(NoMapImageMsg))
       ELSE /\ progressMessage' = VEO_LOADING_MESSAGES[1]
            /\ intervals' = intervals \cup {NewHandle}
            /\ calls' = [calls EXCEPT ![c].pc = "submit",
                                      ![c].messageInterval = Handle(NewHandle)]
            /\ UNCHANGED <<routeData, fileName, isLoading, videoUrl, error,
                           readers, lastRead, parseVars>>

\* generateRouteVideo receives an answer of the service (to the submission
\* or to a status query): it waits again, fails, or returns the link, and on
\* the link handleGenerateVideo goes on to fetchVideoBlob
Observe(c, stage, answer) ==
    IF ~answer.ok
    THEN CatchFinally(c, calls[c], stage, answer.thrown, generateRouteVideoCatch(answer.thrown))
    ELSE LET call == [calls[c] EXCEPT !.operation = answer.value]
         IN  IF PollAgain(call, answer.value)
             THEN /\ calls' = [calls EXCEPT ![c] = AfterNotDone(call)]
                  /\ UNCHANGED <<routeData, fileName, isLoading, progressMessage, videoUrl,
                                 error, readers, lastRead, intervals, parseVars>>
             ELSE IF ~DownloadLink(answer.value).ok
             THEN CatchFinally(c, call, "extract", DownloadLink(answer.value).thrown,
                               generateRouteVideoCatch(DownloadLink(answer.value).thrown))
             ELSE /\ progressMessage' = FinalizingMsg
                  /\ calls' = [calls EXCEPT ![c] =
                                  [call EXCEPT !.pc = "fetch",
                                               !.videoUri = DownloadLink(answer.value).value]]
                  /\ UNCHANGED <<routeData, fileName, isLoading, videoUrl, error,
                                 readers, lastRead, intervals, parseVars>>

\* The service answers done = false while fewer than MaxPolls status queries
\* have been sent
AnswerAllowed(c, answer) ==
    (answer.ok /\ ~answer.value.done) => calls[c].queries < MaxPolls

\* ai.models.generateVideos settles
SubmitSettles(c, answer) ==
    /\ calls[c].pc = "submit"
    /\ answer \in ApiResults
    /\ AnswerAllowed(c, answer)
    /\ Observe(c, "submit", answer)

\* sleep(10000) elapses and the status query is sent
SleepElapses(c) ==
    /\ calls[c].pc = "sleep"
    /\ calls' = [calls EXCEPT ![c].pc = "query", ![c].queries = @ + 1]
    /\ UNCHANGED <<routeData, fileName, isLoading, progressMessage, videoUrl, error,
                   readers, lastRead, intervals, parseVars>>

\* ai.operations.getVideosOperation settles
QuerySettles(c, answer) ==
    /\ calls[c].pc = "query"
    /\ answer \in ApiResults
    /\ AnswerAllowed(c, answer)
    /\ Observe(c, "poll", answer)

\* fetch() settles
FetchSettles(c, outcome) ==
    /\ calls[c].pc = "fetch"
    /\ outcome \in FetchOutcomes
    /\ IF ~outcome.ok
       THEN CatchFinally(c, calls[c], "fetch", outcome.thrown, fetchVideoBlobCatch(outcome.thrown))
       ELSE IF ResponseRejected(outcome.value)
       THEN CatchFinally(c, [calls[c] EXCEPT !.response = outcome.value], "fetch",
                         ResponseError(outcome.value),
                         fetchVideoBlobCatch(ResponseError(outcome.value)))
       ELSE /\ calls' = [calls EXCEPT ![c].pc = "blob", ![c].response = outcome.value]
            /\ UNCHANGED <<routeData, fileName, isLoading, progressMessage, videoUrl, error,
                           readers, lastRead, intervals, parseVars>>

\* response.blob() settles; on the bytes the video is shown, and the finally
\* block runs
BlobSettles(c, outcome) ==
    /\ calls[c].pc = "blob"
    /\ outcome \in BlobOutcomes
    /\ IF ~outcome.ok
       THEN CatchFinally(c, calls[c], "fetch", outcome.thrown, fetchVideoBlobCatch(outcome.thrown))
       ELSE /\ videoUrl' = createObjectURL(outcome.value)
            /\ isLoading' = FALSE
            /\ intervals' = FinallyIntervals(calls[c])
            /\ progressMessage' = ""
            /\ calls' = [calls EXCEPT ![c].pc = "finished"]
            /\ UNCHANGED <<routeData, fileName, error, readers, lastRead, parseVars>>

\* The updater of onProgress: the message after prev
onProgress(prev) ==
    VEO_LOADING_MESSAGES[((IndexOf(VEO_LOADING_MESSAGES, prev) + 1) % Len(VEO_LOADING_MESSAGES)) + 1]

\* A running interval timer fires (every 4000 ms)
IntervalFires(h) ==
    /\ h \in intervals
    /\ progressMessage' = onProgress(progressMessage)
    /\ UNCHANGED <<routeData, fileName, isLoading, videoUrl, error, readers, lastRead,
                   calls, intervals, parseVars>>

(***************************************************************************)
(* Specifications                                                          *)
(***************************************************************************)

NotApplied == Threw(NonError("not applied"))

Init ==
    /\ AppInit
    /\ parseIn = [format |-> "none", parts |-> <<>>, block |-> FALSE, text |-> ""]
    /\ parseOut = NotApplied

Next ==
    \/ \E selected \in {NoFile} \cup DOMAIN Files : handleFileChange(selected)
    \/ \E i \in 1..MaxReads : ReaderLoad(i)
    \/ \E i \in 1..MaxReads : ReaderError(i)
    \/ StartOver
    \/ \E c \in CallIds : handleGenerateVideo(c)
    \/ \E c \in CallIds, outcome \in SnapshotOutcomes : SnapshotSettles(c, outcome)
    \/ \E c \in CallIds, answer \in ApiResults : SubmitSettles(c, answer)
    \/ \E c \in CallIds : SleepElapses(c)
    \/ \E c \in CallIds, answer \in ApiResults : QuerySettles(c, answer)
    \/ \E c \in CallIds, outcome \in FetchOutcomes : FetchSettles(c, outcome)
    \/ \E c \in CallIds, outcome \in BlobOutcomes : BlobSettles(c, outcome)
    \/ \E h \in intervals : IntervalFires(h)

Spec == Init /\ [][Next]_vars

\* The parsers applied to every input text

ParseInit ==
    /\ AppInit
    /\ parseIn \in GpxInputs \cup KmlInputs
    /\ parseOut = NotApplied

ApplyParseGpx ==
    /\ parseIn.format = "gpx"
    /\ parseOut = NotApplied
    /\ parseOut' = parseGpx(parseIn.text)
    /\ UNCHANGED <<parseIn, appVars>>

ApplyParseKml ==
    /\ parseIn.format = "kml"
    /\ parseOut = NotApplied
    /\ parseOut' = parseKml(parseIn.text)
    /\ UNCHANGED <<parseIn, appVars>>

ParseNext == ApplyParseGpx \/ ApplyParseKml

ParseSpec == ParseInit /\ [][ParseNext]_vars

(***************************************************************************)
(* Properties                                                              *)
(***************************************************************************)

Finished(c) == calls[c].pc = "finished"

\* The messages a failed submission or status query is reported with
TransportMessages == {InvalidApiKeyMsg, GenerateFailedMsg}

\* C1: when the job completes (done = true) without a download link, the
\* message handed to setError is the "completed, but no download link" one,
\* which no failed submission or status query produces.
C1_CompletedWithoutResultIsDistinct ==
    \A c \in CallIds :
        (Finished(c) /\ calls[c].failure.stage = "extract")
            => /\ calls[c].shown = <<NoDownloadLinkMsg>>
               /\ calls[c].shown[1] \notin TransportMessages

\* C2: a failed submission or status query is reported with the credential
\* message when the failure is an Error whose message contains "API key not
\* valid", and with the generic message in every other case; the text of
\* the failure itself is never what is shown.
C2_SubmissionFailureMessages ==
    \A c \in CallIds :
        (Finished(c) /\ calls[c].failure.stage \in {"submit", "poll"})
            => \E f \in ApiFailures :
                  /\ f.thrown = calls[c].failure.thrown
                  /\ calls[c].shown =
                        <<IF f.invalidKey THEN InvalidApiKeyMsg ELSE GenerateFailedMsg>>
                  /\ calls[c].shown[1] # f.thrown.message

C2_Witness ==
    \E c \in CallIds :
        /\ Finished(c)
        /\ calls[c].failure.stage = "poll"
        /\ calls[c].failure.thrown = NewError("{\"error\":{\"code\":400,\"message\":\"API key not valid.\"}}")
        /\ error = InvalidApiKeyMsg

\* The link has been extracted, or its extraction has failed
Extracted(c) == calls[c].pc \in {"fetch", "blob"} \/ calls[c].failure.stage = "extract"

\* C3: with k observations of done = false before the first done = true, the
\* loop has made k waits and k status queries when the link is extracted; no
\* query is sent without a wait before it; and extraction follows an
\* observation with done = true.
C3_PollingCounts ==
    \A c \in CallIds :
        /\ calls[c].pc = "sleep"
              => calls[c].waits = calls[c].queries + 1 /\ calls[c].notDone = calls[c].waits
        /\ calls[c].pc = "query"
              => calls[c].waits = calls[c].queries /\ calls[c].notDone = calls[c].queries
        /\ Extracted(c)
              => /\ calls[c].operation.done
                 /\ calls[c].waits = calls[c].notDone
                 /\ calls[c].queries = calls[c].notDone

C3_Witness ==
    \E c \in CallIds :
        /\ calls[c].pc = "fetch"
        /\ calls[c].notDone = 2
        /\ calls[c].waits = 2
        /\ calls[c].queries = 2

Applied == parseOut # NotApplied

\* C4: a GPX text with N >= 1 well-formed track points with numeric lat and
\* lon parses to exactly N coordinates, the i-th carrying the lat and lon of
\* the i-th track point in document order.
C4_GpxEveryTrackPoint ==
    (Applied /\ parseIn.format = "gpx" /\ Len(ExpectedGpx(parseIn.parts)) >= 1)
        => parseOut = Returned(ExpectedGpx(parseIn.parts))

\* C5: a KML text with one coordinates block holding N >= 1 valid
\* "lon,lat[,alt]" tokens among its white-space separated tokens parses to
\* exactly N coordinates in token order, lat from the second field and lon
\* from the first; every other token contributes no coordinate.
C5_KmlEveryValidToken ==
    (Applied /\ parseIn.format = "kml" /\ parseIn.block /\ Len(ExpectedKml(parseIn.parts)) >= 1)
        => parseOut = Returned(ExpectedKml(parseIn.parts))

\* The no-points message of a format
NoPointsMsg(format) == IF format = "gpx" THEN NoTrackPointsMsg ELSE NoCoordinatesMsg

\* C6: a parser never returns an empty sequence: a GPX or KML file whose
\* text holds no point fails with that format's no-points message, and
\* routeData is null or a sequence of at least one coordinate.
C6_NoEmptyTrack ==
    /\ routeData = null \/ Len(routeData) >= 1
    /\ lastRead.event = "load"
          => /\ lastRead.result.ok => Len(lastRead.result.value) >= 1
             /\ (Files[lastRead.file].format \in {"gpx", "kml"} /\ Files[lastRead.file].points = 0)
                   => lastRead.result = Threw(NewError(NoPointsMsg(Files[lastRead.file].format)))

C6_Witness ==
    /\ lastRead.event = "load"
    /\ Files[lastRead.file].format = "gpx"
    /\ Files[lastRead.file].points = 0
    /\ routeData = null
    /\ error = NoTrackPointsMsg

\* C7: once a generate action has finished, on any path, the interval timer
\* it started is not running; with no generate action in flight no timer
\* runs at all and progressMessage is empty.
C7_TimerCleared ==
    /\ \A c \in CallIds :
          (~InFlight(c) /\ calls[c].messageInterval.defined)
              => calls[c].messageInterval.value \notin intervals
    /\ (\A c \in CallIds : ~InFlight(c)) => (intervals = {} /\ progressMessage = "")

C7_Witness ==
    \E c \in CallIds :
        /\ Finished(c)
        /\ calls[c].messageInterval.defined
        /\ calls[c].failure.stage = "poll"
        /\ calls[c].waits = 1

\* Call c ends in this step with a failure
FailsNow(c) ==
    /\ InFlight(c)
    /\ calls'[c].pc = "finished"
    /\ calls'[c].failure # NoFailure

\* could-not-download message and no video; videoUrl is set only by an
\* action whose fetch got an ok response and its bytes.
C9_FetchOutcome ==
    /\ \A c \in CallIds :
          /\ calls[c].pc \in {"fetch", "blob"}
                => /\ calls[c].operation.done
                   /\ Truthy(calls[c].operation.uri)
                   /\ calls[c].videoUri = calls[c].operation.uri
          /\ (Finished(c) /\ calls[c].failure.stage = "fetch")
                => /\ calls[c].shown = <<DownloadFailedMsg>>
                   /\ videoUrl = null
    /\ videoUrl # null
          => \E c \in CallIds :
                /\ Finished(c)
                /\ calls[c].failure = NoFailure
                /\ calls[c].response.ok
                /\ \E bytes \in BlobOutcomes : bytes.ok /\ videoUrl = createObjectURL(bytes.value)

C9_Witness ==
    \E c \in CallIds :
        /\ Finished(c)
        /\ calls[c].failure.stage = "fetch"
        /\ calls[c].response = [ok |-> FALSE, status |-> "403"]
        /\ error = DownloadFailedMsg
        /\ videoUrl = null

Polling(c) == calls[c].pc \in {"sleep", "query"}

\* C10: while a generate action polls, isLoading is true and the interface
\* offers no file input, no Generate button and no Start Over button; the
\* action leaves the polling loop only on an answer with done = true or on a
\* failed status query, however many answers with done = false came before.
C10_PollingNeverGivesUp ==
    /\ [](\A c \in CallIds :
            Polling(c) => isLoading /\ ~FileInputMounted /\ ~GenerateButtonShown /\ ~StartOverShown)
    /\ [][\A c \in CallIds :
            (Polling(c) /\ ~Polling(c)')
                => calls'[c].operation.done \/ calls'[c].failure.stage = "poll"]_vars

C10_Witness ==
    \E c \in CallIds :
        /\ calls[c].pc = "sleep"
        /\ calls[c].waits = MaxPolls
        /\ ~calls[c].operation.done
        /\ isLoading

\* The messages reader.onload and reader.onerror hand to setError
FileMessages ==
    {NoTrackPointsMsg, NoCoordinatesMsg, UnsupportedFileMsg, ParseFallbackMsg, ReadErrorMsg}

\* What a completed read, alone, leaves in routeData and in error
ReadRoute(read) ==
    IF read.event = "load" /\ read.result.ok THEN read.result.value ELSE null
ReadError(read) ==
    IF read.event = "error" THEN ReadErrorMsg
    ELSE IF read.result.ok THEN null
    ELSE MessageOf(read.result.thrown, ParseFallbackMsg)

\* shown, so that neither the Generate Video button, nor the file input, nor
\* Start Over is on the page.
C12_SingleGenerateInFlight ==
    /\ Cardinality({c \in CallIds : InFlight(c)}) <= 1
    /\ \A c \in CallIds : InFlight(c) =>
          /\ isLoading
          /\ videoUrl = null
          /\ ~GenerateButtonShown
          /\ ~FileInputMounted
          /\ ~StartOverShown

\* A read started before the click completes during the generation and
\* takes the track away; the call is still the only one and still loading
C12_Witness ==
    /\ InFlight(1)
    /\ calls[1].pc = "query"
    /\ lastRead.event # "none"
    /\ routeData = null
    /\ error \in FileMessages
    /\ isLoading

====
